---- MODULE Spec2Model ----
(***************************************************************************)
(* Model of the ingestion engine, vllm/rag/ingest/scripts/main.py.         *)
(*                                                                         *)
(* Two threads run FileHandler.process_file: the main thread (the backlog  *)
(* loop of main()) and the watchdog observer thread, which dispatches      *)
(* on_created for every creation notification of the inbox.  The file      *)
(* system (inbox, archive tree), the vector index and the wall clock are   *)
(* the shared state.                                                       *)
(*                                                                         *)
(* Library behaviour the code relies on, modelled as the libraries do it:  *)
(*  - SimpleDirectoryReader(input_files=[p]) raises when p does not exist; *)
(*  - VectorStoreIndex.from_documents gives every node a fresh id and      *)
(*    writes the nodes batch after batch with no rollback (a batch is one  *)
(*    chunk here), so a write adds a record and a failure keeps the        *)
(*    records written before it;                                           *)
(*  - shutil.move is os.rename on one file system: atomic, raises when     *)
(*    the source is missing, replaces an existing destination file;        *)
(*  - Path.iterdir lists the directory once, when the loop starts;         *)
(*  - the observer delivers the events of one watch one after the other.   *)
(***************************************************************************)
EXTENDS Integers, Sequences, FiniteSets, Bags, TLC

(* ------------------------------ bounds --------------------------------- *)
MaxFiles == 2        \* creations in the inbox (files and directories)
MaxChunks == 2       \* most chunks the loader returns for one file
MaxTime == 2         \* last value of the epoch-seconds clock
MaxTexts == 3        \* most texts in one call of the embedding client
MaxDomains == 2      \* most domains of the IPv64 account
MaxRuns == 2         \* runs of the DynDNS updater
MaxRows == 3         \* rows of the tag workbook
MaxImports == 2      \* runs of the tag import

(* ------------------------------ names ---------------------------------- *)
\* file names are sequences of characters, as Path.name
FileNames == { <<"a", ".", "m", "d">>, <<"b", ".", "P", "D", "F">> }
DirNames == { <<"d">> }
Names == FileNames \cup DirNames

Threads == {"main", "watcher"}

\* what reader.load_data() returns for a file of the inbox: b.PDF has no
\* text (no chunk), every other file gives MaxChunks chunks
load_data(p) == IF p = <<"b", ".", "P", "D", "F">> THEN 0 ELSE MaxChunks

(* ------------------------- get_category -------------------------------- *)
\* str.lower() on the characters the names use
LowerChar(c) ==
  CASE c = "A" -> "a" [] c = "B" -> "b" [] c = "C" -> "c" [] c = "D" -> "d"
    [] c = "E" -> "e" [] c = "F" -> "f" [] c = "G" -> "g" [] c = "H" -> "h"
    [] c = "I" -> "i" [] c = "J" -> "j" [] c = "K" -> "k" [] c = "L" -> "l"
    [] c = "M" -> "m" [] c = "N" -> "n" [] c = "O" -> "o" [] c = "P" -> "p"
    [] c = "Q" -> "q" [] c = "R" -> "r" [] c = "S" -> "s" [] c = "T" -> "t"
    [] c = "U" -> "u" [] c = "V" -> "v" [] c = "W" -> "w" [] c = "X" -> "x"
    [] c = "Y" -> "y" [] c = "Z" -> "z" [] OTHER -> c

lower(s) == [i \in 1..Len(s) |-> LowerChar(s[i])]

\* str.rfind('.'): the last index of a dot, 0 when there is none (1-based)
rfind_dot(s) ==
  LET dots == {i \in 1..Len(s) : s[i] = "."}
  IN IF dots = {} THEN 0 ELSE CHOOSE i \in dots : \A j \in dots : j <= i

\* PurePath.suffix: the part from the last dot on, empty when the name has no
\* dot, starts with its only dot or ends with a dot
suffix(name) ==
  LET i == rfind_dot(name)
  IN IF 1 < i /\ i < Len(name) THEN SubSeq(name, i, Len(name)) ELSE << >>

ExtPDF == { <<".", "p", "d", "f">> }
ExtDocuments == { <<".", "m", "d">>, <<".", "t", "x", "t">>,
                  <<".", "h", "t", "m", "l">>, <<".", "h", "t", "m">> }
ExtCode == { <<".", "p", "y">>, <<".", "j", "s">>, <<".", "t", "s">>,
             <<".", "g", "o">>, <<".", "c", "p", "p">>, <<".", "h">>,
             <<".", "j", "a", "v", "a">>, <<".", "y", "a", "m", "l">>,
             <<".", "y", "m", "l">> }

\* get_category without .lower(): the suffix is looked up as it is written
get_category_cased(file_path) ==
  LET ext == suffix(file_path)
  IN IF ext \in ExtPDF THEN "PDF"
     ELSE IF ext \in ExtDocuments THEN "Documents"
     ELSE IF ext \in ExtCode THEN "Code"
     ELSE "Other"

get_category(file_path) ==
  LET ext == lower(suffix(file_path))
  IN IF ext \in ExtPDF THEN "PDF"
     ELSE IF ext \in ExtDocuments THEN "Documents"
     ELSE IF ext \in ExtCode THEN "Code"
     ELSE "Other"

(* ------------------------------ state ---------------------------------- *)
VARIABLES
  files,        \* physical arrival id -> [name, isdir, chunks]: what was created
  inbox,        \* name -> id of the entry at INBOX_DIR/name, 0 when absent
  archive,      \* archive entries [dir, ts, name, fid] under PROCESSED_DIR
  index,        \* bag of index records [path, chunk, fid] (the Qdrant points)
  now,          \* int(time.time())
  pc,           \* thread -> position
  att,          \* thread -> the process_file call the thread is in
  listing,      \* main: names of Path(INBOX_DIR).iterdir() not yet visited
  queue,        \* observer: creation events not yet dispatched
  preexisting,  \* ids in the inbox when observer.start() ran
  backlogCalls, \* name -> process_file calls made by the backlog loop
  liveCalls,    \* name -> process_file calls made by on_created
  archived      \* id -> archive entries ever created for that arrival

\* the state of the ingestion engine
mainVars == <<files, inbox, archive, index, now, pc, att, listing, queue,
              preexisting, backlogCalls, liveCalls, archived>>

\* process_file's choice of the archive directory, taken alone
VARIABLES
  src_path,     \* the file name handed to get_category
  dest_dir      \* the directory under PROCESSED_DIR it chose, "" before

catVars == <<src_path, dest_dir>>

\* one call of the embedding client, InfinityEmbedding
VARIABLES
  method,       \* the method called
  texts,        \* its argument, a list of texts
  response,     \* what requests.post returned
  embeddings,   \* the vectors the method returned
  emb_pc        \* position of the call

embVars == <<method, texts, response, embeddings, emb_pc>>

\* the DynDNS updater, scripts/ipv64_update.py
VARIABLES
  cache,        \* content of CACHE_FILE, "none" when there is no file
  dns_pc,       \* position of the run
  runs,         \* runs of the script so far
  current_ip,   \* main: current_ip, "none" for None
  dns_ip,       \* main: dns_ip, "none" for None
  domains_data, \* update_dyndns: the domains of the account, as fetched
  di,           \* update_dyndns: the domain the loop is at
  results,      \* what happened to each domain in this run
  success       \* update_dyndns: success, and at the end what it returned

dnsVars == <<cache, dns_pc, runs, current_ip, dns_ip, domains_data, di,
             results, success>>

\* the tag import, VideoVault/scripts/import_tags.py
VARIABLES
  workbook,       \* first cell of every row of the sheet, in row order
  tags,           \* the committed rows of the table tags, in id order
  txn,            \* rows inserted by the running import, not yet committed
  tag_pc,         \* position of the run
  ri,             \* the row the loop is at
  count_inserted, \* import_tags: count_inserted
  imports,        \* runs started so far
  committed       \* runs that reached conn.commit()

tagVars == <<workbook, tags, txn, tag_pc, ri, count_inserted, imports,
             committed>>

\* the state outside the ingestion engine
sideVars == <<catVars, embVars, dnsVars, tagVars>>

vars == <<mainVars, sideVars>>

Fids == 1..MaxFiles

NoAtt == [path |-> << >>, slept |-> FALSE, fid |-> 0, n |-> 0, k |-> 0,
          cause |-> "none"]

InProgress(t) == pc[t] \in {"settling", "loading", "indexing", "moving"}
Ended(t) == pc[t] \in {"done", "failed"}

\* Path.exists() in the place of Path.is_file()
is_file_exists(p) == inbox[p] # 0

is_file(p) == inbox[p] # 0 /\ ~files[inbox[p]].isdir

MainInit ==
  /\ files = << >>
  /\ inbox = [p \in Names |-> 0]
  /\ archive = {}
  /\ index = EmptyBag
  /\ now = 0
  /\ pc = [t \in Threads |-> IF t = "main" THEN "boot" ELSE "wait"]
  /\ att = [t \in Threads |-> NoAtt]
  /\ listing = {}
  /\ queue = << >>
  /\ preexisting = {}
  /\ backlogCalls = [p \in Names |-> 0]
  /\ liveCalls = [p \in Names |-> 0]
  /\ archived = [f \in Fids |-> 0]

CatIdle == src_path = << >> /\ dest_dir = ""

NoResponse == [status_code |-> 0, has_data |-> FALSE, data |-> << >>]

EmbIdle ==
  /\ method = "none"
  /\ texts = << >>
  /\ response = NoResponse
  /\ embeddings = << >>
  /\ emb_pc = "idle"

DnsIdle ==
  /\ cache = "none"
  /\ dns_pc = "idle"
  /\ runs = 0
  /\ current_ip = "none"
  /\ dns_ip = "none"
  /\ domains_data = << >>
  /\ di = 0
  /\ results = << >>
  /\ success = FALSE

TagIdle ==
  /\ workbook = << >>
  /\ tags = << >>
  /\ txn = << >>
  /\ tag_pc = "idle"
  /\ ri = 0
  /\ count_inserted = 0
  /\ imports = 0
  /\ committed = 0

Init == MainInit /\ CatIdle /\ EmbIdle /\ DnsIdle /\ TagIdle

\* the observer thread has been started and not been told to stop, and
\* the process runs
observer_running ==
  pc["main"] \notin {"boot", "stopping", "exited", "killed"}

(* ---------------------------- environment ------------------------------ *)
\* a file or a directory is created in the inbox; once the observer runs,
\* the creation is notified (FileCreatedEvent / DirCreatedEvent)
Create ==
  /\ Len(files) < MaxFiles
  /\ \E p \in Names :
       /\ inbox[p] = 0
       /\ files' = Append(files, [name |-> p, isdir |-> p \in DirNames,
                                  chunks |-> IF p \in DirNames THEN 0
                                             ELSE load_data(p)])
       /\ inbox' = [inbox EXCEPT ![p] = Len(files) + 1]
       /\ queue' = IF observer_running
                   THEN Append(queue, [src_path |-> p,
                                       is_directory |-> p \in DirNames])
                   ELSE queue
  /\ UNCHANGED <<archive, index, now, pc, att, listing, preexisting,
                 backlogCalls, liveCalls, archived>>
  /\ UNCHANGED sideVars

\* the clock reaches the next second; every time.sleep(1) that was running
\* when the second began may now return
Tick ==
  /\ now < MaxTime
  /\ now' = now + 1
  /\ att' = [t \in Threads |->
               IF pc[t] = "settling" THEN [att[t] EXCEPT !.slept = TRUE]
               ELSE att[t]]
  /\ UNCHANGED <<files, inbox, archive, index, pc, listing, queue,
                 preexisting, backlogCalls, liveCalls, archived>>
  /\ UNCHANGED sideVars

(* --------------------- FileHandler.process_file ------------------------ *)
\* process_file(file_path) is entered by thread t: time.sleep(1) begins
enter_process_file(t, p) ==
  /\ pc' = [pc EXCEPT ![t] = "settling"]
  /\ att' = [att EXCEPT ![t] = [NoAtt EXCEPT !.path = p]]

\* process_file without time.sleep(1): the file is read at once
process_file_sleep_nowait(t) ==
  /\ pc[t] = "settling"
  /\ pc' = [pc EXCEPT ![t] = "loading"]
  /\ UNCHANGED <<files, inbox, archive, index, now, att, listing, queue,
                 preexisting, backlogCalls, liveCalls, archived>>
  /\ UNCHANGED sideVars

\* time.sleep(1) returns
process_file_sleep(t) ==
  /\ pc[t] = "settling"
  /\ att[t].slept
  /\ pc' = [pc EXCEPT ![t] = "loading"]
  /\ UNCHANGED <<files, inbox, archive, index, now, att, listing, queue,
                 preexisting, backlogCalls, liveCalls, archived>>
  /\ UNCHANGED sideVars

\* SimpleDirectoryReader(input_files=[path]).load_data() returns the chunks
process_file_load(t) ==
  /\ pc[t] = "loading"
  /\ inbox[att[t].path] # 0
  /\ LET f == inbox[att[t].path]
     IN att' = [att EXCEPT ![t].fid = f, ![t].n = files[f].chunks]
  /\ pc' = [pc EXCEPT ![t] = "indexing"]
  /\ UNCHANGED <<files, inbox, archive, index, now, listing, queue,
                 preexisting, backlogCalls, liveCalls, archived>>
  /\ UNCHANGED sideVars

\* the reader raises: the path does not exist (ValueError), or the file
\* cannot be parsed; the except clause logs the error
process_file_load_raises(t) ==
  /\ pc[t] = "loading"
  /\ att' = [att EXCEPT ![t].fid = inbox[att[t].path],
                        ![t].cause = IF inbox[att[t].path] = 0
                                     THEN "missing" ELSE "loader"]
  /\ pc' = [pc EXCEPT ![t] = "failed"]
  /\ UNCHANGED <<files, inbox, archive, index, now, listing, queue,
                 preexisting, backlogCalls, liveCalls, archived>>
  /\ UNCHANGED sideVars

\* the record from_documents writes for chunk k of the loaded documents:
\* the node id is fresh, so the write adds a point
IndexRecord(t, k) == [path |-> att[t].path, chunk |-> k, fid |-> att[t].fid]

upsert(idx, rec) == idx (+) SetToBag({rec})

\* VectorStoreIndex.from_documents embeds and writes the next chunk
process_file_index(t) ==
  /\ pc[t] = "indexing"
  /\ att[t].k < att[t].n
  /\ index' = upsert(index, IndexRecord(t, att[t].k + 1))
  /\ att' = [att EXCEPT ![t].k = att[t].k + 1]
  /\ UNCHANGED <<files, inbox, archive, now, pc, listing, queue,
                 preexisting, backlogCalls, liveCalls, archived>>
  /\ UNCHANGED sideVars

\* the embedding call or the write of the next chunk raises; what was
\* written stays in the index
process_file_index_raises(t) ==
  /\ pc[t] = "indexing"
  /\ att[t].k < att[t].n
  /\ att' = [att EXCEPT ![t].cause = "index"]
  /\ pc' = [pc EXCEPT ![t] = "failed"]
  /\ UNCHANGED <<files, inbox, archive, index, now, listing, queue,
                 preexisting, backlogCalls, liveCalls, archived>>
  /\ UNCHANGED sideVars

\* from_documents that refuses an empty list of documents
process_file_indexed_nonempty(t) ==
  /\ pc[t] = "indexing"
  /\ att[t].k = att[t].n
  /\ pc' = [pc EXCEPT ![t] = IF att[t].n = 0 THEN "failed" ELSE "moving"]
  /\ att' = [att EXCEPT ![t].cause = IF att[t].n = 0 THEN "index" ELSE @]
  /\ UNCHANGED <<files, inbox, archive, index, now, listing, queue,
                 preexisting, backlogCalls, liveCalls, archived>>
  /\ UNCHANGED sideVars

\* from_documents returned: "Successfully indexed"
process_file_indexed(t) ==
  /\ pc[t] = "indexing"
  /\ att[t].k = att[t].n
  /\ pc' = [pc EXCEPT ![t] = "moving"]
  /\ UNCHANGED <<files, inbox, archive, index, now, att, listing, queue,
                 preexisting, backlogCalls, liveCalls, archived>>
  /\ UNCHANGED sideVars

\* category = get_category(file_path), for the names of the model
category == [p \in Names |-> get_category(p)]

\* dest_dir / new_name
Dest(p) == [dir |-> category[p], ts |-> now, name |-> p]

SameDest(e, d) == e.dir = d.dir /\ e.ts = d.ts /\ e.name = d.name

\* shutil.move(src, dst) when src exists: os.rename replaces a file at dst
move(arch, d, f) ==
  {e \in arch : ~SameDest(e, d)} \cup
  {[dir |-> d.dir, ts |-> d.ts, name |-> d.name, fid |-> f]}

\* shutil.copy in the place of shutil.move: the source stays in the inbox
process_file_move_copy(t) ==
  /\ pc[t] = "moving"
  /\ inbox[att[t].path] # 0
  /\ LET p == att[t].path
         f == inbox[p]
     IN /\ archive' = move(archive, Dest(p), f)
        /\ archived' = [archived EXCEPT ![f] = archived[f] + 1]
  /\ pc' = [pc EXCEPT ![t] = "done"]
  /\ UNCHANGED <<files, inbox, index, now, att, listing, queue, preexisting,
                 backlogCalls, liveCalls>>
  /\ UNCHANGED sideVars

\* category, mkdir, the timestamped name and the move
process_file_move(t) ==
  /\ pc[t] = "moving"
  /\ inbox[att[t].path] # 0
  /\ LET p == att[t].path
         f == inbox[p]
     IN /\ archive' = move(archive, Dest(p), f)
        /\ inbox' = [inbox EXCEPT ![p] = 0]
        /\ archived' = [archived EXCEPT ![f] = archived[f] + 1]
  /\ pc' = [pc EXCEPT ![t] = "done"]
  /\ UNCHANGED <<files, index, now, att, listing, queue, preexisting,
                 backlogCalls, liveCalls>>
  /\ UNCHANGED sideVars

\* mkdir or shutil.move raises: the source is gone (FileNotFoundError) or
\* the file system refuses (PermissionError); nothing is moved
process_file_move_raises(t) ==
  /\ pc[t] = "moving"
  /\ att' = [att EXCEPT ![t].cause = "move"]
  /\ pc' = [pc EXCEPT ![t] = "failed"]
  /\ UNCHANGED <<files, inbox, archive, index, now, listing, queue,
                 preexisting, backlogCalls, liveCalls, archived>>
  /\ UNCHANGED sideVars

\* process_file without its except clause: an error leaves the backlog loop
process_file_return_propagate(t) ==
  /\ Ended(t)
  /\ pc' = [pc EXCEPT ![t] = IF t = "main"
                             THEN (IF pc[t] = "failed" THEN "idle" ELSE "scan")
                             ELSE "wait"]
  /\ att' = [att EXCEPT ![t] = NoAtt]
  /\ UNCHANGED <<files, inbox, archive, index, now, listing, queue,
                 preexisting, backlogCalls, liveCalls, archived>>
  /\ UNCHANGED sideVars

\* process_file with a retry in its except clause: after the logged error
\* the attempt starts again on the same path
process_file_return_retry(t) ==
  /\ Ended(t)
  /\ pc' = [pc EXCEPT ![t] = IF pc[t] = "failed" THEN "settling"
                             ELSE IF t = "main" THEN "scan" ELSE "wait"]
  /\ att' = [att EXCEPT ![t] = IF pc[t] = "failed"
                               THEN [NoAtt EXCEPT !.path = att[t].path]
                               ELSE NoAtt]
  /\ UNCHANGED <<files, inbox, archive, index, now, listing, queue,
                 preexisting, backlogCalls, liveCalls, archived>>
  /\ UNCHANGED sideVars

\* process_file returns to its caller, after "Moved ..." or after the
\* logged error
process_file_return(t) ==
  /\ Ended(t)
  /\ pc' = [pc EXCEPT ![t] = IF t = "main" THEN "scan" ELSE "wait"]
  /\ att' = [att EXCEPT ![t] = NoAtt]
  /\ UNCHANGED <<files, inbox, archive, index, now, listing, queue,
                 preexisting, backlogCalls, liveCalls, archived>>
  /\ UNCHANGED sideVars

(* ------------------------------- main ---------------------------------- *)
\* makedirs, the Qdrant client, the handler, observer.schedule and
\* observer.start()
main_start ==
  /\ pc["main"] = "boot"
  /\ pc' = [pc EXCEPT !["main"] = "started"]
  /\ preexisting' = {inbox[p] : p \in {q \in Names : inbox[q] # 0}}
  /\ UNCHANGED <<files, inbox, archive, index, now, att, listing, queue,
                 backlogCalls, liveCalls, archived>>
  /\ UNCHANGED sideVars

\* Path(INBOX_DIR).iterdir(): the directory is listed
main_iterdir ==
  /\ pc["main"] = "started"
  /\ listing' = {p \in Names : inbox[p] # 0}
  /\ pc' = [pc EXCEPT !["main"] = "scan"]
  /\ UNCHANGED <<files, inbox, archive, index, now, att, queue, preexisting,
                 backlogCalls, liveCalls, archived>>
  /\ UNCHANGED sideVars

\* one turn of the backlog loop: the next listed path, processed if it is
\* a regular file
main_loop ==
  /\ pc["main"] = "scan"
  /\ \E p \in listing :
       /\ listing' = listing \ {p}
       /\ IF is_file(p)
          THEN /\ enter_process_file("main", p)
               /\ backlogCalls' = [backlogCalls EXCEPT ![p] = @ + 1]
          ELSE UNCHANGED <<pc, att, backlogCalls>>
  /\ UNCHANGED <<files, inbox, archive, index, now, queue, preexisting,
                 liveCalls, archived>>
  /\ UNCHANGED sideVars

\* the loop is over: main sleeps in "while True"
main_idle ==
  /\ pc["main"] = "scan"
  /\ listing = {}
  /\ pc' = [pc EXCEPT !["main"] = "idle"]
  /\ UNCHANGED <<files, inbox, archive, index, now, att, listing, queue,
                 preexisting, backlogCalls, liveCalls, archived>>
  /\ UNCHANGED sideVars

(* ----------------------- FileHandler.on_created ------------------------ *)
\* the observer thread dispatches the next event to on_created
on_created ==
  /\ pc["watcher"] = "wait"
  /\ queue # << >>
  /\ queue' = Tail(queue)
  /\ IF ~Head(queue).is_directory
     THEN /\ enter_process_file("watcher", Head(queue).src_path)
          /\ liveCalls' = [liveCalls EXCEPT ![Head(queue).src_path] = @ + 1]
     ELSE UNCHANGED <<pc, att, liveCalls>>
  /\ UNCHANGED <<files, inbox, archive, index, now, listing, preexisting,
                 backlogCalls, archived>>
  /\ UNCHANGED sideVars

(* ---------------------------- specification ---------------------------- *)
\* the steps of the service and the creations in the inbox
Steps ==
  \/ Create
  \/ main_start
  \/ main_iterdir
  \/ main_loop
  \/ main_idle
  \/ on_created
  \/ \E t \in Threads : process_file_sleep(t)
  \/ \E t \in Threads : process_file_load(t)
  \/ \E t \in Threads : process_file_load_raises(t)
  \/ \E t \in Threads : process_file_index(t)
  \/ \E t \in Threads : process_file_index_raises(t)
  \/ \E t \in Threads : process_file_indexed(t)
  \/ \E t \in Threads : process_file_move(t)
  \/ \E t \in Threads : process_file_move_raises(t)
  \/ \E t \in Threads : process_file_return(t)

Next == Steps \/ Tick

Spec == Init /\ [][Next]_vars

TypeOK ==
  /\ now \in 0..MaxTime
  /\ Len(files) <= MaxFiles
  /\ \A p \in Names : inbox[p] \in 0..Len(files)
  /\ \A t \in Threads : att[t].k <= att[t].n

(* --------------------- specification with fairness --------------------- *)
\* beyond the last second of the clock, time still passes: a running
\* time.sleep(1) returns
TickLate ==
  /\ now = MaxTime
  /\ \E t \in Threads : pc[t] = "settling" /\ ~att[t].slept
  /\ att' = [t \in Threads |->
               IF pc[t] = "settling" THEN [att[t] EXCEPT !.slept = TRUE]
               ELSE att[t]]
  /\ UNCHANGED <<files, inbox, archive, index, now, pc, listing, queue,
                 preexisting, backlogCalls, liveCalls, archived>>
  /\ UNCHANGED sideVars

process_file(t) ==
  \/ process_file_sleep(t)
  \/ process_file_load(t)
  \/ process_file_load_raises(t)
  \/ process_file_index(t)
  \/ process_file_index_raises(t)
  \/ process_file_indexed(t)
  \/ process_file_move(t)
  \/ process_file_move_raises(t)
  \/ process_file_return(t)

main == main_start \/ main_iterdir \/ main_loop \/ main_idle
          \/ process_file("main")

observer == on_created \/ process_file("watcher")

NextLive == Next \/ TickLate

\* both threads are scheduled and the clock runs
SpecLive ==
  /\ Init
  /\ [][NextLive]_vars
  /\ WF_vars(main)
  /\ WF_vars(observer)
  /\ WF_vars(Tick \/ TickLate)

(* ------------------------ KeyboardInterrupt ---------------------------- *)
\* the interrupt comes while main is in "while True: time.sleep(1)", inside
\* the try: the except clause calls observer.stop(); the observer thread
\* ends the handler call it is in and dispatches nothing more
KeyboardInterrupt_idle ==
  /\ pc["main"] = "idle"
  /\ pc' = [t \in Threads |->
              IF t = "main" THEN "stopping"
              ELSE IF pc[t] = "wait" THEN "dead" ELSE pc[t]]
  /\ queue' = << >>
  /\ UNCHANGED <<files, inbox, archive, index, now, att, listing,
                 preexisting, backlogCalls, liveCalls, archived>>
  /\ UNCHANGED sideVars

\* observer.join() returns when the observer thread has ended; main ends
observer_join ==
  /\ pc["main"] = "stopping"
  /\ pc["watcher"] \in {"wait", "dead"}
  /\ pc' = [t \in Threads |-> IF t = "main" THEN "exited" ELSE "dead"]
  /\ UNCHANGED <<files, inbox, archive, index, now, att, listing, queue,
                 preexisting, backlogCalls, liveCalls, archived>>
  /\ UNCHANGED sideVars

\* the interrupt comes after observer.start() and before the try: in the
\* backlog loop or in a process_file call of it, whose "except Exception"
\* does not catch KeyboardInterrupt.  The exception leaves main(), the
\* interpreter exits and the observer thread, a daemon thread, ends with it
\* wherever it is
KeyboardInterrupt_backlog ==
  /\ pc["main"] \in {"started", "scan", "settling", "loading", "indexing",
                     "moving", "done", "failed"}
  /\ pc' = [t \in Threads |-> IF t = "main" THEN "killed" ELSE "dead"]
  /\ att' = [t \in Threads |-> NoAtt]
  /\ listing' = {}
  /\ queue' = << >>
  /\ UNCHANGED <<files, inbox, archive, index, now, preexisting,
                 backlogCalls, liveCalls, archived>>
  /\ UNCHANGED sideVars

NextInterrupt ==
  \/ Next
  \/ KeyboardInterrupt_idle
  \/ observer_join
  \/ KeyboardInterrupt_backlog

SpecInterrupt == Init /\ [][NextInterrupt]_vars

(* ------------------------------ claims --------------------------------- *)
Created == 1..Len(files)
RegularFiles == {f \in Created : ~files[f].isdir}
InInbox(f) == inbox[files[f].name] = f
InArchive(f) == \E e \in archive : e.fid = f
Busy(p) == \E t \in Threads : InProgress(t) /\ att[t].path = p

\* C1: every file placed in the inbox is, whenever no attempt for its path
\* is in progress, in exactly one of the inbox and the archive.
C1_ExactlyOnePlace ==
  \A f \in RegularFiles :
    ~Busy(files[f].name) => (InInbox(f) # InArchive(f))

\* C2: a file leaves the inbox only in a step of an attempt that has written
\* all of that file's chunks, and an attempt that fails in the loader or in
\* the index write moves nothing, archives nothing and ends with the file it
\* loaded still at its inbox path.
C2_MoveOnlyAfterIndex ==
  [][ /\ \A p \in Names :
           (inbox[p] # 0 /\ inbox'[p] # inbox[p]) =>
             \E t \in Threads : /\ att[t].path = p
                                /\ att[t].fid = inbox[p]
                                /\ att[t].k = files[inbox[p]].chunks
      /\ \A t \in Threads :
           (pc[t] # "failed" /\ pc'[t] = "failed"
              /\ att'[t].cause \in {"loader", "index"}) =>
             /\ inbox' = inbox
             /\ archive' = archive
             /\ inbox'[att[t].path] # 0
             /\ inbox'[att[t].path] = att'[t].fid ]_vars

\* C3: the index holds at most one record per (sourcePath, chunkIndex) of a
\* file, whatever attempts were made on it.
C3_OneRecordPerChunk ==
  \A r \in BagToSet(index) : CopiesIn(r, index) <= 1

IndexedChunks(f) ==
  {c \in 1..files[f].chunks :
     BagIn([path |-> files[f].name, chunk |-> c, fid |-> f], index)}

\* C4: whenever no attempt for a file's path is in progress, the index
\* holds a record for every chunk of the file or no record of it.
C4_AllChunksOrNone ==
  \A f \in RegularFiles :
    ~Busy(files[f].name) =>
      IndexedChunks(f) = {} \/ IndexedChunks(f) = 1..files[f].chunks

\* C5: an attempt that finds no file at its path changes neither the index
\* nor the archive and ends in the normal outcome, not in Failed.
C5_MissingFileIsNoError ==
  [][ \A t \in Threads :
        (pc[t] = "loading" /\ inbox[att[t].path] = 0 /\ pc'[t] # pc[t]) =>
          (index' = index /\ archive' = archive /\ pc'[t] = "done") ]_vars

\* C6: at most one archive entry is ever created for one physical arrival.
C6_NoDoubleArchive ==
  \A f \in Fids :
    /\ archived[f] <= 1
    /\ f \in Created => Cardinality({e \in archive : e.fid = f}) <= 1

\* C6 witness: the backlog loop and a creation event both processed one
\* arrival; one of the two moved it, the other found it gone.
C6_Witness ==
  \E t \in Threads :
    /\ pc[t] = "failed" /\ att[t].cause = "move"
    /\ att[t].fid # 0 /\ archived[att[t].fid] = 1
    /\ backlogCalls[att[t].path] = 1 /\ liveCalls[att[t].path] = 1

Settled(f) ==
  \/ archived[f] > 0
  \/ \E t \in Threads : pc[t] = "failed" /\ att[t].fid = f /\ InInbox(f)

\* C7: for every regular file that is or comes into the inbox, an attempt
\* ends with the file archived, or Failed with the file still in the inbox.
C7_NoFileLost ==
  \A f \in Fids : [](f \notin RegularFiles) \/ <>Settled(f)

\* C7 witness: one file was archived although the attempt for another file
\* ended Failed.
C7_Witness ==
  \E f \in RegularFiles, t \in Threads :
    /\ archived[f] = 1
    /\ pc[t] = "failed" /\ att[t].fid # 0 /\ att[t].fid # f
    /\ files[att[t].fid].name # files[f].name

CreatedLive(p) ==
  IF pc["main"] = "boot" THEN {}
  ELSE {f \in Created : files[f].name = p /\ f \notin preexisting}

EventsFor(p) == {i \in 1..Len(queue) : queue[i].src_path = p}

\* C8: the backlog loop calls process_file at most once per path, and when
\* it is over exactly once for every regular file that was there before
\* observer.start() and never for a directory; every regular file created
\* later has its creation event queued or dispatched to process_file.
C8_BacklogOnce ==
  /\ \A p \in Names : backlogCalls[p] <= 1
  /\ \A p \in DirNames : backlogCalls[p] = 0 /\ liveCalls[p] = 0
  /\ pc["main"] = "idle" =>
       \A f \in preexisting :
         backlogCalls[files[f].name] = IF files[f].isdir THEN 0 ELSE 1
  /\ \A p \in FileNames :
       liveCalls[p] + Cardinality(EventsFor(p)) = Cardinality(CreatedLive(p))

\* C8 witness: the loop is over and the inbox held a regular file and a
\* directory before the service started.
C8_Witness ==
  /\ pc["main"] = "idle"
  /\ \E f, g \in preexisting : ~files[f].isdir /\ files[g].isdir

\* C9: at most one process_file call is in progress at any moment.
C9_OneAtATime ==
  Cardinality({t \in Threads : InProgress(t)}) <= 1

\* C10: when the destination of the move already exists, the existing
\* entry is kept, the attempt ends Failed and the source stays in the inbox.
C10_NoOverwrite ==
  [][ \A t \in Threads :
        (/\ pc[t] = "moving" /\ pc'[t] # "moving"
         /\ \E e \in archive : SameDest(e, Dest(att[t].path))) =>
          (archive' = archive /\ inbox' = inbox /\ pc'[t] = "failed") ]_vars

(* ------------------- the archive directory of a name ------------------- *)
\* the capital letter of a character
UpperChar(c) ==
  LET caps == {u \in {"A", "B", "C", "D", "E", "F", "G", "H", "I", "J", "K",
                      "L", "M", "N", "O", "P", "Q", "R", "S", "T", "U", "V",
                      "W", "X", "Y", "Z"} : LowerChar(u) = c}
  IN IF caps = {} THEN c ELSE CHOOSE u \in caps : TRUE

\* every way to write the sequence e in small and capital letters
RECURSIVE Cases(_)
Cases(e) ==
  IF e = << >> THEN { << >> }
  ELSE {<<c>> \o r : c \in {e[1], UpperChar(e[1])}, r \in Cases(Tail(e))}

\* the extensions of the three named categories, written in small letters
ListedPDF == { <<".", "p", "d", "f">> }
ListedDocuments == { <<".", "m", "d">>, <<".", "t", "x", "t">>,
                     <<".", "h", "t", "m", "l">>, <<".", "h", "t", "m">> }
ListedCode == { <<".", "p", "y">>, <<".", "j", "s">>, <<".", "t", "s">>,
                <<".", "g", "o">>, <<".", "c", "p", "p">>, <<".", "h">>,
                <<".", "j", "a", "v", "a">>, <<".", "y", "a", "m", "l">>,
                <<".", "y", "m", "l">> }

\* extensions of no category: none, unknown ones, ones that only begin or
\* end like a listed one, and a lone dot
UnlistedExts == { << >>, <<".", "x", "y", "z">>, <<".", "p", "d", "f", "x">>,
                  <<".", "m">>, <<".", "p", "d">>, <<".", "Y">>, <<".">> }

CatExts ==
  UNION {Cases(e) : e \in ListedPDF \cup ListedDocuments \cup ListedCode}
    \cup UnlistedExts

\* what stands before the extension: a plain name, a name with a dot in it,
\* and a hidden file whose name reads like an extension
CatStems == { <<"a">>, <<"r", ".", "v", "2">>, <<".", "p", "d", "f">> }

CatPaths == {st \o e : st \in CatStems, e \in CatExts}

InitCat ==
  /\ MainInit
  /\ EmbIdle
  /\ DnsIdle
  /\ TagIdle
  /\ src_path \in CatPaths
  /\ dest_dir = ""

\* category = get_category(file_path); dest_dir = PROCESSED_DIR / category
process_file_dest_dir ==
  /\ dest_dir = ""
  /\ dest_dir' = get_category(src_path)
  /\ UNCHANGED <<src_path, mainVars, embVars, dnsVars, tagVars>>

NextCat == process_file_dest_dir

SpecCat == InitCat /\ [][NextCat]_vars

\* the category the list of extensions gives to the extension e
ListedCategory(e) ==
  IF \E l \in ListedPDF : e \in Cases(l) THEN "PDF"
  ELSE IF \E l \in ListedDocuments : e \in Cases(l) THEN "Documents"
  ELSE IF \E l \in ListedCode : e \in Cases(l) THEN "Code"
  ELSE "Other"

\* C11: the archive directory chosen for a file is the category of its
\* extension whatever the case of its letters: PDF for .pdf, Documents for
\* .md .txt .html .htm, Code for .py .js .ts .go .cpp .h .java .yaml .yml,
\* Other for every other extension and for none.
C11_CategoryByExtension ==
  dest_dir # "" =>
    \A st \in CatStems, e \in CatExts :
      src_path = st \o e => dest_dir = ListedCategory(e)

\* C11 witness: a name with a dot in its stem and the extension .PDF in
\* capital letters got the directory PDF.
C11_Witness ==
  /\ src_path = <<"r", ".", "v", "2", ".", "P", "D", "F">>
  /\ dest_dir = "PDF"

C13_ZeroChunksArchived ==
  [][ /\ \A r \in BagToSet(index') : files[r.fid].chunks > 0
      /\ \A t \in Threads :
           /\ (pc[t] = "indexing" /\ att[t].n = 0 /\ pc'[t] # pc[t]) =>
                (index' = index /\ pc'[t] = "moving")
           /\ (pc[t] = "moving" /\ att[t].n = 0 /\ pc'[t] = "done") =>
                /\ index' = index
                /\ inbox'[att[t].path] = 0
                /\ \E e \in archive' :
                     /\ e.fid = inbox[att[t].path]
                     /\ e.name = att[t].path
                     /\ e.dir = get_category(att[t].path) ]_vars

\* C13 witness: an attempt that loaded zero chunks ended with its file in
\* the archive, gone from the inbox and with no record in the index.
C13_Witness ==
  \E t \in Threads :
    /\ pc[t] = "done" /\ att[t].fid # 0 /\ att[t].n = 0
    /\ InArchive(att[t].fid) /\ ~InInbox(att[t].fid)
    /\ \A r \in BagToSet(index) : r.fid # att[t].fid

(* ------------------------- InfinityEmbedding --------------------------- *)
Texts == {"a", "b", "c"}

TextLists == UNION {[1..n -> Texts] : n \in 0..MaxTexts}

\* the vector the embedding model gives for a text
Embed(x) == <<"embedding", x>>

Item(x) == [has_embedding |-> TRUE, embedding |-> Embed(x)]
BadItem == [has_embedding |-> FALSE, embedding |-> << >>]

\* the body the service's interface promises for the input txs: one item
\* per text, in input order
Conformant(txs) == [i \in 1..Len(txs) |-> Item(txs[i])]

Body(d) == [status_code |-> 200, has_data |-> TRUE, data |-> d]

\* what the service may answer to POST /embeddings with input txs: the
\* promised body, an error status, a body without 'data', an item without
\* 'embedding', an item too few, an item too many
Answers(txs) ==
  LET d == Conformant(txs)
  IN {Body(d)}
     \cup {[status_code |-> 500, has_data |-> FALSE, data |-> << >>]}
     \cup {[status_code |-> 200, has_data |-> FALSE, data |-> << >>]}
     \cup {Body([d EXCEPT ![i] = BadItem]) : i \in 1..Len(d)}
     \cup {Body(SubSeq(d, 1, Len(d) - 1)) : i \in 1..Len(d)}
     \cup {Body(Append(d, Item("a")))}

InitEmbed ==
  /\ MainInit
  /\ CatIdle
  /\ DnsIdle
  /\ TagIdle
  /\ method \in {"_get_text_embedding", "_get_text_embeddings"}
  /\ texts \in TextLists
  /\ method = "_get_text_embedding" => Len(texts) = 1
  /\ response = NoResponse
  /\ embeddings = << >>
  /\ emb_pc = "call"

embFrame == <<mainVars, catVars, dnsVars, tagVars>>

\* requests.post(f"{base_url}/embeddings", json={"input": ..}) returns
requests_post ==
  /\ emb_pc = "call"
  /\ response' \in Answers(texts)
  /\ emb_pc' = "answered"
  /\ UNCHANGED <<method, texts, embeddings, embFrame>>

\* requests.post raises: the service cannot be reached
requests_post_raises ==
  /\ emb_pc = "call"
  /\ emb_pc' = "raised"
  /\ UNCHANGED <<method, texts, response, embeddings, embFrame>>

\* response.raise_for_status() raises for a 4xx or 5xx status
raise_for_status(r) == 400 <= r.status_code /\ r.status_code < 600

\* response.json()["data"][0]["embedding"]
_get_text_embedding ==
  /\ emb_pc = "answered"
  /\ method = "_get_text_embedding"
  /\ ~raise_for_status(response)
  /\ response.has_data
  /\ Len(response.data) >= 1
  /\ response.data[1].has_embedding
  /\ embeddings' = <<response.data[1].embedding>>
  /\ emb_pc' = "returned"
  /\ UNCHANGED <<method, texts, response, embFrame>>

\* HTTPError, KeyError or IndexError in _get_text_embedding
_get_text_embedding_raises ==
  /\ emb_pc = "answered"
  /\ method = "_get_text_embedding"
  /\ ~(/\ ~raise_for_status(response)
       /\ response.has_data
       /\ Len(response.data) >= 1
       /\ response.data[1].has_embedding)
  /\ emb_pc' = "raised"
  /\ UNCHANGED <<method, texts, response, embeddings, embFrame>>

\* the list comprehension with the items reversed
embeddings_reversed(r) ==
  [i \in 1..Len(r.data) |-> r.data[Len(r.data) + 1 - i].embedding]

\* [item["embedding"] for item in response.json()["data"]]
embeddings_of(r) == [i \in 1..Len(r.data) |-> r.data[i].embedding]

_get_text_embeddings ==
  /\ emb_pc = "answered"
  /\ method = "_get_text_embeddings"
  /\ ~raise_for_status(response)
  /\ response.has_data
  /\ \A i \in 1..Len(response.data) : response.data[i].has_embedding
  /\ embeddings' = embeddings_of(response)
  /\ emb_pc' = "returned"
  /\ UNCHANGED <<method, texts, response, embFrame>>

\* HTTPError or KeyError in _get_text_embeddings
_get_text_embeddings_raises ==
  /\ emb_pc = "answered"
  /\ method = "_get_text_embeddings"
  /\ \/ raise_for_status(response)
     \/ ~response.has_data
     \/ \E i \in 1..Len(response.data) : ~response.data[i].has_embedding
  /\ emb_pc' = "raised"
  /\ UNCHANGED <<method, texts, response, embeddings, embFrame>>

NextEmbed ==
  \/ requests_post
  \/ requests_post_raises
  \/ _get_text_embedding
  \/ _get_text_embedding_raises
  \/ _get_text_embeddings
  \/ _get_text_embeddings_raises

SpecEmbed == InitEmbed /\ [][NextEmbed]_vars

WellFormed(r, txs) ==
  /\ ~raise_for_status(r)
  /\ r.has_data
  /\ \A i \in 1..Len(r.data) : r.data[i].has_embedding
  /\ Len(r.data) = Len(txs)

\* C15: the embedding client returns vectors only for an answer with a
\* success status and a body that has 'data', an 'embedding' in every item
\* and as many items as there were inputs; for every other answer it raises.
C15_NoPartialBatch ==
  emb_pc = "returned" => WellFormed(response, texts)

\* C16: no two attempts for the same inbox path are in progress at once.
C16_NotConcurrentWithItself ==
  \A t1, t2 \in Threads :
    (t1 # t2 /\ InProgress(t1) /\ InProgress(t2)) =>
      att[t1].path # att[t2].path

\* C17: no successful move targets a destination <epochSeconds>_<name> in
\* a category directory that an earlier successful move has targeted.
C17_UniqueArchiveNames ==
  [][ \A t \in Threads :
        (pc[t] = "moving" /\ pc'[t] = "done") =>
          ~\E e \in archive : SameDest(e, Dest(att[t].path)) ]_vars

\* the phases of one attempt, in the order of the code
PhaseOrder ==
  { <<"settling", "loading">>, <<"loading", "indexing">>,
    <<"indexing", "moving">>, <<"moving", "done">>,
    <<"loading", "failed">>, <<"indexing", "failed">>,
    <<"moving", "failed">> }

Phases == {"settling", "loading", "indexing", "moving", "done", "failed"}

\* C18: an attempt goes through Settling, Loading, Embedding+Indexing,
\* Archiving and Done in this order, each once and none skipped; Failed is
\* entered only from Loading, Indexing or Archiving and is left only by the
\* return to the caller; the file is read only after the settle delay has
\* elapsed, the index is written only by an attempt whose load has returned,
\* and the inbox and the archive are changed only by the move of an attempt
\* whose index write has returned with all chunks written.
C18_PhaseOrder ==
  [][ /\ \A t \in Threads :
           /\ (pc[t] \in Phases /\ pc'[t] \in Phases /\ pc'[t] # pc[t]) =>
                <<pc[t], pc'[t]>> \in PhaseOrder
           /\ (pc[t] \notin Phases /\ pc'[t] \in Phases) =>
                pc'[t] = "settling" /\ ~att'[t].slept /\ att'[t].k = 0
           /\ (pc[t] \in Phases /\ pc'[t] \notin Phases) => Ended(t)
           /\ (pc[t] = "settling" /\ pc'[t] = "loading") => att[t].slept
           /\ (pc[t] = "indexing" /\ pc'[t] = "moving") =>
                att[t].k = att[t].n
      /\ index' # index =>
           \E t \in Threads :
             /\ pc[t] = "indexing" /\ pc'[t] = "indexing"
             /\ att[t].slept /\ att[t].fid # 0
      /\ (archive' # archive \/ \E p \in Names : inbox[p] # 0 /\ inbox'[p] = 0)
           => \E t \in Threads :
                /\ pc[t] = "moving" /\ pc'[t] = "done"
                /\ att[t].slept /\ att[t].k = att[t].n ]_vars

\* C18 witness: an attempt for a file with chunks is Done, with the delay
\* slept and every chunk written, while the other thread's attempt has Failed.
C18_Witness ==
  \E t, u \in Threads :
    /\ pc[t] = "done" /\ att[t].slept
    /\ att[t].n > 0 /\ att[t].k = att[t].n
    /\ pc[u] = "failed"

\* C19: whenever the service has ended after an interrupt that came after
\* observer.start(), observer.stop() and observer.join() have been executed.
C19_StopAndJoinOnInterrupt ==
  pc["main"] \in {"exited", "killed"} => pc["main"] = "exited"

(* ------------------------- ipv64_update.py ----------------------------- *)
IPs == {"ip1", "ip2"}

\* the account's domains as get_domains returns them: for each domain,
\* whether its entry has a domain_update_hash
Accounts == UNION {[1..n -> [has_hash : BOOLEAN]] : n \in 0..MaxDomains}

\* what update.php may answer
UpdateAnswers == {"good", "nochg", "badauth"}

InitDns ==
  /\ MainInit
  /\ CatIdle
  /\ EmbIdle
  /\ TagIdle
  /\ cache \in IPs \cup {"none"}
  /\ dns_pc = "start"
  /\ runs = 1
  /\ current_ip = "none"
  /\ dns_ip = "none"
  /\ domains_data = << >>
  /\ di = 0
  /\ results = << >>
  /\ success = FALSE

dnsFrame == <<mainVars, catVars, embVars, tagVars>>

\* main: no IPV64_API_KEY, or get_public_ip() returns None: return
ipv64_main_return_early ==
  /\ dns_pc = "start"
  /\ dns_pc' = "end"
  /\ UNCHANGED <<cache, runs, current_ip, dns_ip, domains_data, di, results,
                 success, dnsFrame>>

\* main: current_ip = get_public_ip(); dns_ip = get_dns_ip("korczewski.de")
ipv64_main_get_ips ==
  /\ dns_pc = "start"
  /\ current_ip' \in IPs
  /\ dns_ip' \in IPs \cup {"none"}
  /\ dns_pc' = "check"
  /\ UNCHANGED <<cache, runs, domains_data, di, results, success, dnsFrame>>

\* main: needs_update, from the DNS answer and the cache file
needs_update ==
  IF current_ip # dns_ip THEN TRUE ELSE current_ip # cache

\* main: the cache is read and the update is found unnecessary or is begun
ipv64_main_check ==
  /\ dns_pc = "check"
  /\ dns_pc' = IF needs_update THEN "fetch" ELSE "end"
  /\ UNCHANGED <<cache, runs, current_ip, dns_ip, domains_data, di, results,
                 success, dnsFrame>>

\* update_dyndns: get_domains answers 200 with a non-empty "subdomains"
update_dyndns_get_domains ==
  /\ dns_pc = "fetch"
  /\ \E d \in Accounts :
       /\ d # << >>
       /\ domains_data' = d
       /\ results' = [i \in 1..Len(d) |-> "pending"]
  /\ di' = 1
  /\ success' = TRUE
  /\ dns_pc' = "loop"
  /\ UNCHANGED <<cache, runs, current_ip, dns_ip, dnsFrame>>

\* update_dyndns: the status is not 200, "subdomains" is empty or missing,
\* or the request or resp.json() raises: return False
update_dyndns_get_domains_fails ==
  /\ dns_pc = "fetch"
  /\ success' = FALSE
  /\ dns_pc' = "returned"
  /\ UNCHANGED <<cache, runs, current_ip, dns_ip, domains_data, di, results,
                 dnsFrame>>

\* update_dyndns: the domain has no domain_update_hash: continue
update_dyndns_continue ==
  /\ dns_pc = "loop"
  /\ di <= Len(domains_data)
  /\ ~domains_data[di].has_hash
  /\ results' = [results EXCEPT ![di] = "skipped"]
  /\ di' = di + 1
  /\ UNCHANGED <<cache, dns_pc, runs, current_ip, dns_ip, domains_data,
                 success, dnsFrame>>

\* the check of the answer that takes every answer for a success
update_accepted_any(content) == content \in UpdateAnswers

\* "good" in content or "nochg" in content
update_accepted(content) == content \in {"good", "nochg"}

\* update_dyndns: update.php is called for the domain and answers
update_dyndns_update ==
  /\ dns_pc = "loop"
  /\ di <= Len(domains_data)
  /\ domains_data[di].has_hash
  /\ \E content \in UpdateAnswers :
       /\ results' = [results EXCEPT ![di] = content]
       /\ success' = IF update_accepted(content) THEN success ELSE FALSE
  /\ di' = di + 1
  /\ UNCHANGED <<cache, dns_pc, runs, current_ip, dns_ip, domains_data,
                 dnsFrame>>

\* update_dyndns: the call of update.php raises: except Exception, return
\* False
update_dyndns_update_raises ==
  /\ dns_pc = "loop"
  /\ di <= Len(domains_data)
  /\ domains_data[di].has_hash
  /\ results' = [results EXCEPT ![di] = "exception"]
  /\ success' = FALSE
  /\ dns_pc' = "returned"
  /\ UNCHANGED <<cache, runs, current_ip, dns_ip, domains_data, di,
                 dnsFrame>>

\* update_dyndns: the loop is over: return success
update_dyndns_return ==
  /\ dns_pc = "loop"
  /\ di > Len(domains_data)
  /\ dns_pc' = "returned"
  /\ UNCHANGED <<cache, runs, current_ip, dns_ip, domains_data, di, results,
                 success, dnsFrame>>

\* main: update_dyndns returned True: CACHE_FILE is written; "Done."
ipv64_main_write_cache ==
  /\ dns_pc = "returned"
  /\ success
  /\ cache' = current_ip
  /\ dns_pc' = "end"
  /\ UNCHANGED <<runs, current_ip, dns_ip, domains_data, di, results,
                 success, dnsFrame>>

\* main: update_dyndns returned False: "Update failed."
ipv64_main_update_failed ==
  /\ dns_pc = "returned"
  /\ ~success
  /\ dns_pc' = "end"
  /\ UNCHANGED <<cache, runs, current_ip, dns_ip, domains_data, di, results,
                 success, dnsFrame>>

\* the script is run again
ipv64_main_again ==
  /\ dns_pc = "end"
  /\ runs < MaxRuns
  /\ runs' = runs + 1
  /\ dns_pc' = "start"
  /\ current_ip' = "none"
  /\ dns_ip' = "none"
  /\ domains_data' = << >>
  /\ di' = 0
  /\ results' = << >>
  /\ success' = FALSE
  /\ UNCHANGED <<cache, dnsFrame>>

NextDns ==
  \/ ipv64_main_return_early
  \/ ipv64_main_get_ips
  \/ ipv64_main_check
  \/ update_dyndns_get_domains
  \/ update_dyndns_get_domains_fails
  \/ update_dyndns_continue
  \/ update_dyndns_update
  \/ update_dyndns_update_raises
  \/ update_dyndns_return
  \/ ipv64_main_write_cache
  \/ ipv64_main_update_failed
  \/ ipv64_main_again

SpecDns == InitDns /\ [][NextDns]_vars

\* the step that writes the cache file
CacheWritten == dns_pc = "returned" /\ dns_pc' = "end" /\ success

\* C20 as stated: the cache file is written only in a run in which every
\* domain of the account was updated with the answer good or nochg.
C20_CacheOnlyAfterAllDomainsUpdated ==
  [][ CacheWritten =>
        \A i \in 1..Len(domains_data) : results[i] \in {"good", "nochg"}
    ]_vars

\* C20 amended: the cache file is written, with the current public IP, only
\* in a run that fetched a non-empty domain list and got good or nochg for
\* every domain that has a domain_update_hash (domains without one are
\* skipped and do not count); every other step leaves the cache as it is;
\* and a run that reaches the check with a cache different from the public
\* IP goes on to the update.
C20_CacheOnlyAfterAllHashedDomainsUpdated ==
  [][ /\ CacheWritten =>
           /\ cache' = current_ip
           /\ domains_data # << >>
           /\ \A i \in 1..Len(domains_data) :
                IF domains_data[i].has_hash
                THEN results[i] \in {"good", "nochg"}
                ELSE results[i] = "skipped"
      /\ ~CacheWritten => cache' = cache
      /\ (dns_pc = "check" /\ cache # current_ip) => dns_pc' = "fetch"
    ]_vars

\* C20 witness: the second run wrote the cache after good for one domain
\* and a skip of a domain without hash; the cache had kept another IP.
C20_Witness ==
  /\ dns_pc = "end" /\ success /\ runs = 2
  /\ cache = current_ip /\ dns_ip = current_ip
  /\ \E i, j \in 1..Len(results) :
       results[i] = "good" /\ results[j] = "skipped"

(* --------------------------- import_tags.py ---------------------------- *)
\* cell values are sequences of characters; "nbsp" is the character \xa0
Digits == {"0", "1", "2", "3", "4", "5", "6", "7", "8", "9"}

\* str.replace('\xa0', ' ')
replace_nbsp(v) == [i \in 1..Len(v) |-> IF v[i] = "nbsp" THEN " " ELSE v[i]]

\* str.rfind(' '), 1-based: 0 when there is no space
rfind_space(v) ==
  LET sp == {i \in 1..Len(v) : v[i] = " "}
  IN IF sp = {} THEN 0 ELSE CHOOSE i \in sp : \A j \in sp : j <= i

\* str.strip(): white space is taken off both ends
strip(v) ==
  LET ink == {i \in 1..Len(v) : v[i] \notin {" ", "nbsp"}}
  IN IF ink = {} THEN << >>
     ELSE SubSeq(v, CHOOSE i \in ink : \A j \in ink : i <= j,
                    CHOOSE i \in ink : \A j \in ink : j <= i)

\* str.replace(',', '')
RECURSIVE remove_commas(_)
remove_commas(v) ==
  IF v = << >> THEN << >>
  ELSE IF Head(v) = "," THEN remove_commas(Tail(v))
  ELSE <<Head(v)>> \o remove_commas(Tail(v))

\* int(count_str) raises ValueError unless the string is a number: digits,
\* for the characters of the cells here
is_int(v) == v # << >> /\ \A i \in 1..Len(v) : v[i] \in Digits

DigitValue(c) ==
  CASE c = "0" -> 0 [] c = "1" -> 1 [] c = "2" -> 2 [] c = "3" -> 3
    [] c = "4" -> 4 [] c = "5" -> 5 [] c = "6" -> 6 [] c = "7" -> 7
    [] c = "8" -> 8 [] c = "9" -> 9

RECURSIVE int(_)
int(v) ==
  IF v = << >> THEN 0
  ELSE 10 * int(SubSeq(v, 1, Len(v) - 1)) + DigitValue(v[Len(v)])

\* name and count of a cell, lines 27-42
parse_cell(raw_val) ==
  LET val == replace_nbsp(raw_val)
      last_space_idx == rfind_space(val)
      count_str == remove_commas(strip(SubSeq(val, last_space_idx + 1,
                                              Len(val))))
  IN IF last_space_idx # 0 /\ is_int(count_str)
     THEN [name |-> strip(SubSeq(val, 1, last_space_idx - 1)),
           count |-> int(count_str)]
     ELSE [name |-> val, count |-> 0]

\* an empty cell (None)
NoCell == <<"None">>

\* the cells of the workbooks: an empty cell, a tag with two counts, the
\* same tag with a non-breaking space, with no count and with a word in the
\* place of the count, and a tag whose count has a comma
Cells ==
  { NoCell,
    <<"a", " ", "1">>, <<"a", " ", "2">>, <<"a", "nbsp", "1">>,
    <<"a">>, <<"a", " ", "x">>, <<"b", " ", "1", ",", "2">> }

Workbooks == UNION {[1..n -> Cells] : n \in 0..MaxRows}

\* rows the table holds before the first import
ManualRow == [name |-> <<"a">>, count |-> 7, type |-> "manual"]

InitTag ==
  /\ MainInit
  /\ CatIdle
  /\ EmbIdle
  /\ DnsIdle
  /\ workbook \in Workbooks
  /\ tags \in { << >>, <<ManualRow>> }
  /\ txn = << >>
  /\ tag_pc = "rows"
  /\ ri = 1
  /\ count_inserted = 0
  /\ imports = 1
  /\ committed = 0

tagFrame == <<mainVars, catVars, embVars, dnsVars>>

\* SELECT id FROM tags WHERE name = ..., asked of the committed rows only
select_committed(name) == \E i \in 1..Len(tags) : tags[i].name = name

\* SELECT id FROM tags WHERE name = ...: the cursor sees the committed rows
\* and the rows its own transaction has inserted
select_name(name) ==
  \/ \E i \in 1..Len(tags) : tags[i].name = name
  \/ \E i \in 1..Len(txn) : txn[i].name = name

\* if not row or not row[0]: continue
import_tags_empty_row ==
  /\ tag_pc = "rows"
  /\ ri <= Len(workbook)
  /\ workbook[ri] = NoCell
  /\ ri' = ri + 1
  /\ UNCHANGED <<workbook, tags, txn, tag_pc, count_inserted, imports,
                 committed, tagFrame>>

\* the name is in the table: continue
import_tags_exists ==
  /\ tag_pc = "rows"
  /\ ri <= Len(workbook)
  /\ workbook[ri] # NoCell
  /\ select_name(parse_cell(workbook[ri]).name)
  /\ ri' = ri + 1
  /\ UNCHANGED <<workbook, tags, txn, tag_pc, count_inserted, imports,
                 committed, tagFrame>>

\* INSERT INTO tags (name, count, type) VALUES (.., .., 'imported')
import_tags_insert ==
  /\ tag_pc = "rows"
  /\ ri <= Len(workbook)
  /\ workbook[ri] # NoCell
  /\ ~select_name(parse_cell(workbook[ri]).name)
  /\ txn' = Append(txn, [name |-> parse_cell(workbook[ri]).name,
                         count |-> parse_cell(workbook[ri]).count,
                         type |-> "imported"])
  /\ count_inserted' = count_inserted + 1
  /\ ri' = ri + 1
  /\ UNCHANGED <<workbook, tags, tag_pc, imports, committed, tagFrame>>

\* a statement raises (the connection is lost): the script ends without
\* conn.commit() and the server rolls the transaction back
import_tags_raises ==
  /\ tag_pc = "rows"
  /\ ri <= Len(workbook)
  /\ txn' = << >>
  /\ tag_pc' = "end"
  /\ UNCHANGED <<workbook, tags, ri, count_inserted, imports, committed,
                 tagFrame>>

\* conn.commit()
import_tags_commit ==
  /\ tag_pc = "rows"
  /\ ri > Len(workbook)
  /\ tags' = tags \o txn
  /\ txn' = << >>
  /\ committed' = committed + 1
  /\ tag_pc' = "end"
  /\ UNCHANGED <<workbook, ri, count_inserted, imports, tagFrame>>

\* the script is run again, over the same workbook
import_tags_again ==
  /\ tag_pc = "end"
  /\ imports < MaxImports
  /\ imports' = imports + 1
  /\ tag_pc' = "rows"
  /\ ri' = 1
  /\ count_inserted' = 0
  /\ UNCHANGED <<workbook, tags, txn, committed, tagFrame>>

NextTag ==
  \/ import_tags_empty_row
  \/ import_tags_exists
  \/ import_tags_insert
  \/ import_tags_raises
  \/ import_tags_commit
  \/ import_tags_again

SpecTag == InitTag /\ [][NextTag]_vars

\* the rows of the table as the running import sees them
TagRows == tags \o txn

\* C21: a run inserts a row only for a name that no row has at that point,
\* rows of the same run included; so the table never holds two rows with
\* one name of which one is imported, and a run that starts after a run
\* over the same workbook was committed inserts no row.
C21_ImportIdempotent ==
  [][ /\ Len(txn') > Len(txn) =>
           /\ Len(txn') = Len(txn) + 1
           /\ \A i \in 1..Len(TagRows) :
                TagRows[i].name # txn'[Len(txn')].name
      /\ Len(tags') + Len(txn') > Len(tags) + Len(txn) => Len(txn') > Len(txn)
      /\ \A i, j \in 1..Len(TagRows') :
           (i # j /\ TagRows'[i].type = "imported") =>
             TagRows'[i].name # TagRows'[j].name
      /\ (committed >= 1 /\ tag_pc' = "rows") =>
           (count_inserted' = 0 /\ txn' = << >>) ]_vars

\* C21 witness: the second run is over and inserted nothing; the first run
\* had inserted one row for three cells that all parse to the name a, and
\* the table holds that one row.
C21_Witness ==
  /\ imports = 2 /\ committed = 2 /\ tag_pc = "end"
  /\ count_inserted = 0
  /\ workbook = << <<"a", " ", "1">>, <<"a", "nbsp", "1">>,
                   <<"a", " ", "2">> >>
  /\ tags = << [name |-> <<"a">>, count |-> 1, type |-> "imported"] >>

====
